---- MODULE Spec2Model ----
(***************************************************************************)
(* Model of DartSystem (src/de34/mainのコピー.py): the poll loop of        *)
(* start_game/game_loop on the calling thread, the game_timer threads it   *)
(* spawns, and the serial device they share.                               *)
(*                                                                         *)
(* Thread 0 is the thread that calls start_game; thread s (s >= 1) is the  *)
(* game_timer thread spawned by the s-th call of start_game.  pc[t] names  *)
(* the source line thread t executes next ("L108" is line 108).  One       *)
(* action is one source line (or one run of lines that touches no shared   *)
(* field), so every interleaving of the two kinds of thread at the level   *)
(* of reads and writes of the shared fields is a behaviour of the model.   *)
(*                                                                         *)
(* A line of text is a sequence of one-character strings.  Time is         *)
(* counted in seconds and advances in steps of TickSeconds.  An exception  *)
(* nobody catches leaves start_game: pc[0] = "raised", and the calling     *)
(* thread does nothing more.                                               *)
(***************************************************************************)
EXTENDS Integers, Sequences, FiniteSets, TLC

(* ---------------------------------------------------------------- bounds *)
MaxSessions == 2
MaxReads == 3
MaxInterrupts == 1
MaxTime == 60
MaxCalibrations == 1

(* ------------------------------------------------------------- constants *)
game_duration == 60
TickSeconds == game_duration \div 2

(* for i in range(30)                                                      *)
calibration_ticks == 30

Main == 0
Timers == 1..MaxSessions
Threads == 0..MaxSessions

Zones == {"bull", "zone3", "zone2", "zone1"}

InitScoreZones ==
  [z \in Zones |-> CASE z = "bull" -> 100 [] z = "zone3" -> 50
                     [] z = "zone2" -> 20 [] OTHER -> 10]

InitSensorMapping ==
  [i \in 0..11 |-> IF i <= 2 THEN "zone1" ELSE IF i <= 5 THEN "zone2"
                   ELSE IF i <= 8 THEN "zone3" ELSE "bull"]

InitPressureThreshold ==
  [z \in Zones |-> CASE z = "bull" -> 300 [] z = "zone3" -> 250
                     [] z = "zone2" -> 200 [] OTHER -> 150]

(* Variant: the tokens of zone3 and zone2 exchanged.                       *)
feedback_codes_Swapped ==
  [z \in Zones |-> CASE z = "bull" -> "LED:BULL" [] z = "zone3" -> "LED:MID"
                     [] z = "zone2" -> "LED:HIGH" [] OTHER -> "LED:LOW"]

feedback_codes ==
  [z \in Zones |-> CASE z = "bull" -> "LED:BULL" [] z = "zone3" -> "LED:HIGH"
                     [] z = "zone2" -> "LED:MID" [] OTHER -> "LED:LOW"]

(* ------------------------------------------------- text: split and int() *)
DigitChars == <<"0", "1", "2", "3", "4", "5", "6", "7", "8", "9">>

IsDigit(c) == \E i \in 1..10 : DigitChars[i] = c

DigitVal(c) == (CHOOSE i \in 1..10 : DigitChars[i] = c) - 1

RECURSIVE SplitFrom(_, _, _)
(* str.split(':'): cur is the field being collected, i the next index.     *)
SplitFrom(data, i, cur) ==
  IF i > Len(data) THEN <<cur>>
  ELSE IF data[i] = ":" THEN <<cur>> \o SplitFrom(data, i + 1, <<>>)
  ELSE SplitFrom(data, i + 1, Append(cur, data[i]))

(* Variant: split(':') that keeps the first two fields only.               *)
Split_FirstTwo(data) ==
  IF Len(SplitFrom(data, 1, <<>>)) > 2
  THEN SubSeq(SplitFrom(data, 1, <<>>), 1, 2)
  ELSE SplitFrom(data, 1, <<>>)

Split(data) == SplitFrom(data, 1, <<>>)

Unsigned(f) == IF Len(f) > 0 /\ f[1] \in {"-", "+"} THEN Tail(f) ELSE f

(* int(f) succeeds: an optional sign followed by at least one digit.       *)
IsIntLiteral(f) ==
  /\ Len(Unsigned(f)) > 0
  /\ \A i \in 1..Len(Unsigned(f)) : IsDigit(Unsigned(f)[i])

RECURSIVE DigitsValue(_)
DigitsValue(ds) ==
  IF ds = <<>> THEN 0
  ELSE 10 * DigitsValue(SubSeq(ds, 1, Len(ds) - 1)) + DigitVal(ds[Len(ds)])

IntOf(f) ==
  IF Len(f) > 0 /\ f[1] = "-" THEN 0 - DigitsValue(Unsigned(f))
  ELSE DigitsValue(Unsigned(f))

(* sensor_id, pressure = map(int, data.split(':')); ok is FALSE where the  *)
(* statement raises ValueError.                                            *)
Decode(data) ==
  LET parts == Split(data)
  IN IF Len(parts) = 2 /\ IsIntLiteral(parts[1]) /\ IsIntLiteral(parts[2])
     THEN [ok |-> TRUE, sensor_id |-> IntOf(parts[1]),
           pressure |-> IntOf(parts[2])]
     ELSE [ok |-> FALSE, sensor_id |-> 0, pressure |-> 0]

(* ------------------------------------- float arithmetic (sum/len, * 0.7) *)
(* Python floats are IEEE-754 doubles: every operation returns the exact   *)
(* result rounded to 53 significant bits, ties to even.  A natural number  *)
(* is a sequence of limbs, least significant first; a float is m * 2^x     *)
(* with m such a natural (<<>> is zero).  Readings are not negative.       *)
LimbBits == 14

LimbBase == 2^LimbBits

RECURSIVE Trim(_)
Trim(a) ==
  IF a = <<>> THEN <<>>
  ELSE IF a[Len(a)] = 0 THEN Trim(SubSeq(a, 1, Len(a) - 1)) ELSE a

RECURSIVE BigOf(_)
BigOf(n) == IF n = 0 THEN <<>> ELSE <<n % LimbBase>> \o BigOf(n \div LimbBase)

RECURSIVE SmallOf(_)
SmallOf(a) == IF a = <<>> THEN 0 ELSE a[1] + LimbBase * SmallOf(Tail(a))

RECURSIVE BigAdd(_, _, _)
BigAdd(a, b, carry) ==
  IF a = <<>> /\ b = <<>> THEN BigOf(carry)
  ELSE LET t == (IF a = <<>> THEN 0 ELSE a[1])
                + (IF b = <<>> THEN 0 ELSE b[1]) + carry
       IN <<t % LimbBase>>
          \o BigAdd(IF a = <<>> THEN <<>> ELSE Tail(a),
                    IF b = <<>> THEN <<>> ELSE Tail(b), t \div LimbBase)

RECURSIVE BigMulLimb(_, _, _)
BigMulLimb(a, limb, carry) ==
  IF a = <<>> THEN BigOf(carry)
  ELSE LET t == a[1] * limb + carry
       IN <<t % LimbBase>> \o BigMulLimb(Tail(a), limb, t \div LimbBase)

RECURSIVE BigMul(_, _)
BigMul(a, b) ==
  IF b = <<>> THEN <<>>
  ELSE BigAdd(BigMulLimb(a, b[1], 0), <<0>> \o BigMul(a, Tail(b)), 0)

(* a * 2^k                                                                 *)
BigShl(a, k) ==
  [i \in 1..(k \div LimbBits) |-> 0] \o BigMulLimb(a, 2^(k % LimbBits), 0)

RECURSIVE BigDivSmall(_, _)
(* Quotient and remainder of a by n, for n below 2^17.                     *)
BigDivSmall(a, n) ==
  IF a = <<>> THEN [q |-> <<>>, r |-> 0]
  ELSE LET hi == BigDivSmall(Tail(a), n)
           t == hi.r * LimbBase + a[1]
       IN [q |-> <<t \div n>> \o hi.q, r |-> t % n]

RECURSIVE BitLenSmall(_)
BitLenSmall(n) == IF n = 0 THEN 0 ELSE 1 + BitLenSmall(n \div 2)

BitLen(a) ==
  IF Trim(a) = <<>> THEN 0
  ELSE LimbBits * (Len(Trim(a)) - 1) + BitLenSmall(Trim(a)[Len(Trim(a))])

(* a \div 2^d, and whether the division is exact.                          *)
DivPow2(a, d) ==
  LET k == IF d \div LimbBits < Len(a) THEN d \div LimbBits ELSE Len(a)
      dv == BigDivSmall(SubSeq(a, k + 1, Len(a)), 2^(d % LimbBits))
  IN [q |-> Trim(dv.q),
      exact |-> dv.r = 0 /\ \A i \in 1..k : a[i] = 0]

(* a rounded to 53 significant bits, ties to even: the result is m * 2^x.  *)
RoundNearestEven(a) ==
  IF BitLen(a) <= 53 THEN [m |-> Trim(a), x |-> 0]
  ELSE LET d == BitLen(a) - 53
           dv == DivPow2(BigAdd(a, BigShl(<<1>>, d - 1), 0), d)
       IN [m |-> IF dv.exact /\ dv.q[1] % 2 = 1
                 THEN [dv.q EXCEPT ![1] = @ - 1] ELSE dv.q,
           x |-> d]

(* s / n of two ints: the quotient to 70 binary places with a sticky bit   *)
(* for the remainder, rounded.                                             *)
TrueDiv(s, n) ==
  IF s = 0 THEN [m |-> <<>>, x |-> 0]
  ELSE LET dv == BigDivSmall(BigShl(BigOf(s), 70), n)
           r == RoundNearestEven(
                  BigAdd(BigShl(Trim(dv.q), 1),
                         IF dv.r = 0 THEN <<>> ELSE <<1>>, 0))
       IN [m |-> r.m, x |-> r.x - 71]

FloatMul(a, b) ==
  IF a.m = <<>> \/ b.m = <<>> THEN [m |-> <<>>, x |-> 0]
  ELSE LET r == RoundNearestEven(BigMul(a.m, b.m))
       IN [m |-> r.m, x |-> r.x + a.x + b.x]

(* The literal 0.7: the double 0x1.6666666666666p-1.                       *)
Point7 == [m |-> <<9830, 6553, 9830, 1433>>, x |-> -53]

(* int(f) of a float that is not negative.                                 *)
IntTrunc(f) ==
  IF f.m = <<>> THEN 0
  ELSE IF f.x >= 0 THEN SmallOf(BigShl(f.m, f.x))
  ELSE SmallOf(DivPow2(f.m, 0 - f.x).q)

(* ------------------------------------------------- what the device sends *)
RECURSIVE Decimal(_)
Decimal(n) ==
  IF n < 10 THEN <<DigitChars[n + 1]>>
  ELSE Decimal(n \div 10) \o <<DigitChars[(n % 10) + 1]>>

SensorLine(id, p) == Decimal(id) \o <<":">> \o Decimal(p)

(* What a calibration run presses: three readings of one zone and one of   *)
(* the bull.                                                               *)
CalLines ==
  { SensorLine(0, 100), SensorLine(0, 200), SensorLine(0, 300),
    SensorLine(9, 350) }

(* A calibration run on a noisy link: a reading of the bull, a sensor the  *)
(* table does not know and a line that is not numbers.                     *)
StrayLines ==
  { SensorLine(9, 350), SensorLine(99, 500),
    <<"a", "b", "c", ":", "x", "y", "z">> }

(* The lines of a short game: the events of the end-to-end scenario.       *)
GameLines ==
  { SensorLine(9, 350), SensorLine(0, 140), SensorLine(3, 250) }

(* Every sensor at its threshold and one above it, and the malformed and   *)
(* unknown-sensor shapes.                                                  *)
ProbeLines ==
  { SensorLine(i, InitPressureThreshold[InitSensorMapping[i]] + d) :
      i \in 0..11, d \in {0, 1} }
  \cup { SensorLine(0, 0), SensorLine(12, 301), SensorLine(99, 500),
         <<"a", "b", "c", ":", "x", "y", "z">>,
         <<"-", "1", ":", "5", "0", "0">>, <<"3", ":", "-", "5">>,
         <<>>, <<"5">>, <<":">>, <<"1", ":", "2", ":", "3">>,
         <<"9", ":", "3", "5", "0", ":", "1">>,
         <<"9", ":", "x">>, <<"-", ":", "5">>, <<"9", ":">> }

(* ----------------------------------------------------------------- state *)
VARIABLES
  score_zones, sensor_mapping, pressure_threshold,   \* configuration tables
  current_score, game_active, hit_history, game_start_time,
  pc,            \* pc[t]: the line thread t executes next
  sensor_data,   \* game_loop's local: the line being processed
  snap,          \* snap[t]: generate_qr_result's partly built game_result
  deadline,      \* deadline[s]: when timer s's sleep ends
  now,           \* the clock, in seconds
  session,       \* calls of start_game so far
  feed,          \* the lines the device can send, and how many
  consumed,      \* the lines readline returned since the session began
  reads,         \* lines read from the device so far
  written,       \* feedback tokens written to the device
  results,       \* the game results emitted so far
  interrupts,    \* KeyboardInterrupts delivered so far
  fault,         \* the device call that raised an I/O error, or "none"
  cal_i,         \* calibrate_sensors' loop variable i
  calibration_data,  \* calibrate_sensors' local: bucket -> readings
  report,        \* the result lines the last calibration printed
  calibrations   \* calls of calibrate_sensors so far

config == <<score_zones, sensor_mapping, pressure_threshold>>
fields == <<current_score, game_active, hit_history, game_start_time>>
device == <<feed, consumed, reads, written, fault>>
cal == <<cal_i, calibration_data, report, calibrations>>
vars == <<config, fields, pc, sensor_data, snap, deadline, now, session,
          device, results, interrupts, cal>>

NoSnap == [final_score |-> 0, total_hits |-> 0]

NoBuckets == [zone \in {} |-> <<>>]

(* The state after DartSystem(), the device's lines aside.                 *)
Constructed ==
  /\ score_zones = InitScoreZones
  /\ sensor_mapping = InitSensorMapping
  /\ pressure_threshold = InitPressureThreshold
  /\ current_score = 0
  /\ game_active = FALSE
  /\ hit_history = <<>>
  /\ game_start_time = 0
  /\ pc = [t \in Threads |-> IF t = Main THEN "idle" ELSE "unborn"]
  /\ sensor_data = <<>>
  /\ snap = [t \in Threads |-> NoSnap]
  /\ deadline = [s \in Timers |-> 0]
  /\ now = 0
  /\ session = 0
  /\ consumed = <<>>
  /\ reads = 0
  /\ written = <<>>
  /\ results = <<>>
  /\ interrupts = 0
  /\ fault = "none"
  /\ cal_i = 0
  /\ calibration_data = NoBuckets
  /\ report = NoBuckets
  /\ calibrations = 0

Init ==
  /\ Constructed
  /\ feed \in { [lines |-> GameLines, limit |-> MaxReads],
                [lines |-> ProbeLines, limit |-> 1] }

Goto(t, l) == pc' = [pc EXCEPT ![t] = l]

(* ------------------------------------------------------------ start_game *)
start_game ==
  /\ pc[Main] = "idle"
  /\ session < MaxSessions
  /\ session' = session + 1
  /\ current_score' = 0
  /\ consumed' = <<>>
  /\ Goto(Main, "L56")
  /\ UNCHANGED <<config, cal, game_active, hit_history, game_start_time,
                 sensor_data, snap, deadline, now, feed, reads, written,
                 fault, results, interrupts>>

start_game_L56 ==
  /\ pc[Main] = "L56"
  /\ game_active' = TRUE
  /\ Goto(Main, "L57")
  /\ UNCHANGED <<config, cal, current_score, hit_history, game_start_time,
                 sensor_data, snap, deadline, now, session, device, results,
                 interrupts>>

start_game_L57 ==
  /\ pc[Main] = "L57"
  /\ hit_history' = <<>>
  /\ Goto(Main, "L58")
  /\ UNCHANGED <<config, cal, current_score, game_active, game_start_time,
                 sensor_data, snap, deadline, now, session, device, results,
                 interrupts>>

(* self.game_start_time = time.time();                                     *)
(* threading.Thread(target=self.game_timer).start(), then game_loop()      *)
start_game_L58 ==
  /\ pc[Main] = "L58"
  /\ game_start_time' = now
  /\ pc' = [pc EXCEPT ![Main] = "L75", ![session] = "L69"]
  /\ deadline' = [deadline EXCEPT ![session] = now + game_duration]
  /\ UNCHANGED <<config, cal, current_score, game_active, hit_history,
                 sensor_data, snap, now, session, device, results,
                 interrupts>>

(* ------------------------------------------------------------- game_loop *)
(* while self.game_active:                                                 *)
game_loop_L75 ==
  /\ pc[Main] = "L75"
  /\ Goto(Main, IF game_active THEN "L78" ELSE "idle")
  /\ UNCHANGED <<config, cal, fields, sensor_data, snap, deadline, now, session,
                 device, results, interrupts>>

(* if self.arduino.in_waiting > 0:                                         *)
game_loop_L78 ==
  /\ pc[Main] = "L78"
  /\ \/ reads < feed.limit /\ Goto(Main, "L79")
     \/ Goto(Main, "L82")
  /\ UNCHANGED <<config, cal, fields, sensor_data, snap, deadline, now, session,
                 device, results, interrupts>>

(* --------------------------------------------------- process_sensor_data *)
(* Variant: pressure >= threshold.                                         *)
IsHit_AtThreshold(data) ==
  LET d == Decode(data)
  IN /\ d.ok
     /\ d.sensor_id \in DOMAIN sensor_mapping
     /\ d.pressure >= pressure_threshold[sensor_mapping[d.sensor_id]]

IsHit(data) ==
  LET d == Decode(data)
  IN /\ d.ok
     /\ d.sensor_id \in DOMAIN sensor_mapping
     /\ d.pressure > pressure_threshold[sensor_mapping[d.sensor_id]]

(* The line process_sensor_data goes to next: into register_hit, or back   *)
(* to game_loop's sleep (after the except clause, where int() raised).     *)
process_sensor_data(data) == IF IsHit(data) THEN "L108" ELSE "L82"

(* sensor_data = self.arduino.readline().decode().strip();                 *)
(* self.process_sensor_data(sensor_data)                                   *)
game_loop_L79 ==
  /\ pc[Main] = "L79"
  /\ reads < feed.limit
  /\ \E l \in feed.lines :
       /\ sensor_data' = l
       /\ consumed' = Append(consumed, l)
       /\ Goto(Main, process_sensor_data(l))
  /\ reads' = reads + 1
  /\ UNCHANGED <<config, cal, fields, snap, deadline, now, session, feed, written,
                 fault, results, interrupts>>

(* time.sleep(0.1), then the loop's test again                             *)
game_loop_L82 ==
  /\ pc[Main] = "L82"
  /\ Goto(Main, IF game_active THEN "L78" ELSE "idle")
  /\ UNCHANGED <<config, cal, fields, sensor_data, snap, deadline, now, session,
                 device, results, interrupts>>

(* The lines of game_loop's try block, and of what it calls.               *)
TryLines == {"L78", "L79", "L108", "L110", "L122", "L82"}

(* Every other line thread 0 can be at inside start_game.                  *)
OutsideTryLines ==
  {"L56", "L57", "L58", "L75", "L151", "L163", "L164", "L171"}

(* KeyboardInterrupt inside the try: except KeyboardInterrupt:             *)
(* self.end_game(); break.  Elsewhere nothing catches it.                  *)
KeyboardInterrupt ==
  /\ interrupts < MaxInterrupts
  /\ pc[Main] \in TryLines \cup OutsideTryLines
  /\ interrupts' = interrupts + 1
  /\ Goto(Main, IF pc[Main] \in TryLines THEN "L151" ELSE "raised")
  /\ UNCHANGED <<config, cal, fields, sensor_data, snap, deadline, now, session,
                 device, results>>

(* A serial I/O error (or a decode error of the bytes read) in game_loop:  *)
(* neither except clause matches it.                                       *)
DeviceError(line, call) ==
  /\ pc[Main] = line
  /\ fault' = call
  /\ Goto(Main, "raised")
  /\ UNCHANGED <<config, cal, fields, sensor_data, snap, deadline, now, session,
                 feed, consumed, reads, written, results, interrupts>>

in_waiting_raises == DeviceError("L78", "in_waiting")

readline_raises == DeviceError("L79", "readline")

write_raises == DeviceError("L122", "write")

(* ---------------------------------------------------------- register_hit *)
(* The arguments register_hit was called with.                             *)
HitZone == sensor_mapping[Decode(sensor_data).sensor_id]

HitPressure == Decode(sensor_data).pressure

(* Variant: self.current_score = points.                                   *)
register_hit_L108_Assign ==
  /\ pc[Main] = "L108"
  /\ current_score' = score_zones[HitZone]
  /\ Goto(Main, "L110")
  /\ UNCHANGED <<config, cal, game_active, hit_history, game_start_time,
                 sensor_data, snap, deadline, now, session, device, results,
                 interrupts>>

(* points = self.score_zones[zone]; self.current_score += points           *)
register_hit_L108 ==
  /\ pc[Main] = "L108"
  /\ current_score' = current_score + score_zones[HitZone]
  /\ Goto(Main, "L110")
  /\ UNCHANGED <<config, cal, game_active, hit_history, game_start_time,
                 sensor_data, snap, deadline, now, session, device, results,
                 interrupts>>

hit_info ==
  [zone |-> HitZone, points |-> score_zones[HitZone],
   pressure |-> HitPressure, timestamp |-> now - game_start_time]

(* Variant: self.hit_history.insert(0, hit_info).                          *)
register_hit_L110_Prepend ==
  /\ pc[Main] = "L110"
  /\ hit_history' = <<hit_info>> \o hit_history
  /\ Goto(Main, "L122")
  /\ UNCHANGED <<config, cal, current_score, game_active, game_start_time,
                 sensor_data, snap, deadline, now, session, device, results,
                 interrupts>>

(* hit_info = {...}; self.hit_history.append(hit_info)                     *)
register_hit_L110 ==
  /\ pc[Main] = "L110"
  /\ hit_history' = Append(hit_history, hit_info)
  /\ Goto(Main, "L122")
  /\ UNCHANGED <<config, cal, current_score, game_active, game_start_time,
                 sensor_data, snap, deadline, now, session, device, results,
                 interrupts>>

(* self.arduino.write(feedback_codes[zone].encode())                       *)
send_feedback ==
  /\ pc[Main] = "L122"
  /\ written' = Append(written, feedback_codes[HitZone])
  /\ Goto(Main, "L82")
  /\ UNCHANGED <<config, cal, fields, sensor_data, snap, deadline, now, session,
                 feed, consumed, reads, fault, results, interrupts>>

(* ------------------------------------------------------------ game_timer *)
(* time.sleep(self.game_duration); if self.game_active: self.end_game()    *)
game_timer(s) ==
  /\ pc[s] = "L69"
  /\ now >= deadline[s]
  /\ Goto(s, IF game_active THEN "L151" ELSE "done")
  /\ UNCHANGED <<config, cal, fields, sensor_data, snap, deadline, now, session,
                 device, results, interrupts>>

(* -------------------------------------------------------------- end_game *)
(* Variant: end_game that leaves game_active set.                          *)
end_game_KeepsActive(t) ==
  /\ pc[t] = "L151"
  /\ Goto(t, "L163")
  /\ UNCHANGED <<config, cal, fields, sensor_data, snap, deadline, now, session,
                 device, results, interrupts>>

(* self.game_active = False                                                *)
end_game(t) ==
  /\ pc[t] = "L151"
  /\ game_active' = FALSE
  /\ Goto(t, "L163")
  /\ UNCHANGED <<config, cal, current_score, hit_history, game_start_time,
                 sensor_data, snap, deadline, now, session, device, results,
                 interrupts>>

(* 'final_score': self.current_score                                       *)
generate_qr_result_L163(t) ==
  /\ pc[t] = "L163"
  /\ snap' = [snap EXCEPT ![t].final_score = current_score]
  /\ Goto(t, "L164")
  /\ UNCHANGED <<config, cal, fields, sensor_data, deadline, now, session, device,
                 results, interrupts>>

(* 'total_hits': len(self.hit_history)                                     *)
generate_qr_result_L164(t) ==
  /\ pc[t] = "L164"
  /\ snap' = [snap EXCEPT ![t].total_hits = Len(hit_history)]
  /\ Goto(t, "L171")
  /\ UNCHANGED <<config, cal, fields, sensor_data, deadline, now, session, device,
                 results, interrupts>>

(* What json.dumps(game_result) serialises: 'hit_details' is the list      *)
(* self.hit_history itself, read when the text is produced.                *)
game_result(t) ==
  [final_score |-> snap[t].final_score, total_hits |-> snap[t].total_hits,
   hit_details |-> hit_history, game_date |-> now,
   game_duration |-> game_duration]

(* result_json = json.dumps(game_result); the QR code is made of it.       *)
(* Thread 0 then returns to the except clause, which leaves the loop.      *)
generate_qr_result_L171(t) ==
  /\ pc[t] = "L171"
  /\ results' = Append(results, game_result(t))
  /\ snap' = [snap EXCEPT ![t] = NoSnap]
  /\ Goto(t, IF t = Main THEN "idle" ELSE "done")
  /\ UNCHANGED <<config, cal, fields, sensor_data, deadline, now, session, device,
                 interrupts>>

(* ----------------------------------------------------- calibrate_sensors *)
(* calibration_data = {}                                                   *)
calibrate_sensors ==
  /\ pc[Main] = "idle"
  /\ calibrations < MaxCalibrations
  /\ calibrations' = calibrations + 1
  /\ cal_i' = 0
  /\ calibration_data' = NoBuckets
  /\ consumed' = <<>>
  /\ Goto(Main, "L201")
  /\ UNCHANGED <<config, fields, sensor_data, snap, deadline, now, session,
                 feed, reads, written, fault, results, interrupts, report>>

(* self.sensor_mapping.get(sensor_id)                                      *)
sensor_mapping_get_NoDefault(sensor_id) ==
  IF sensor_id \in DOMAIN sensor_mapping THEN sensor_mapping[sensor_id]
  ELSE "None"

(* self.sensor_mapping.get(sensor_id, 'unknown')                           *)
sensor_mapping_get(sensor_id) ==
  IF sensor_id \in DOMAIN sensor_mapping THEN sensor_mapping[sensor_id]
  ELSE "unknown"

(* if zone not in calibration_data: calibration_data[zone] = []            *)
(* calibration_data[zone].append(pressure)                                 *)
Bucketed(data, zone, pressure) ==
  [z \in DOMAIN data \cup {zone} |->
     IF z = zone
     THEN (IF z \in DOMAIN data THEN data[z] ELSE <<>>) \o <<pressure>>
     ELSE data[z]]

(* One pass of the for loop: nothing waiting, or a line is read and, when  *)
(* it is two integers, its pressure is put in its zone's bucket (a         *)
(* ValueError continues with the next i).  The sleep is the clock's.       *)
calibrate_sensors_L201 ==
  /\ pc[Main] = "L201"
  /\ cal_i < calibration_ticks
  /\ cal_i' = cal_i + 1
  /\ \/ UNCHANGED <<calibration_data, consumed, reads>>
     \/ /\ reads < feed.limit
        /\ \E data \in feed.lines :
             /\ consumed' = Append(consumed, data)
             /\ calibration_data' =
                  IF Decode(data).ok
                  THEN Bucketed(calibration_data,
                                sensor_mapping_get(Decode(data).sensor_id),
                                Decode(data).pressure)
                  ELSE calibration_data
        /\ reads' = reads + 1
  /\ UNCHANGED <<config, fields, pc, sensor_data, snap, deadline, now,
                 session, feed, written, fault, results, interrupts, report,
                 calibrations>>

RECURSIVE sum(_)
sum(pressures) ==
  IF pressures = <<>> THEN 0 ELSE Head(pressures) + sum(Tail(pressures))

(* avg_pressure = sum(pressures) / len(pressures)                          *)
avg_pressure(pressures) == TrueDiv(sum(pressures), Len(pressures))

(* recommended_threshold = int(avg_pressure * 0.7)                         *)
recommended_threshold(pressures) ==
  IntTrunc(FloatMul(avg_pressure(pressures), Point7))

Recommended(data) ==
  [zone \in {z \in DOMAIN data : data[z] # <<>>} |->
     [avg_pressure |-> avg_pressure(data[zone]),
      recommended_threshold |-> recommended_threshold(data[zone])]]

(* The loop is over: one printed line per bucket, and the thresholds in    *)
(* use are set from the recommendations.                                   *)
calibrate_sensors_L221_Applies ==
  /\ pc[Main] = "L201"
  /\ cal_i = calibration_ticks
  /\ report' = Recommended(calibration_data)
  /\ pressure_threshold' =
       [z \in DOMAIN pressure_threshold |->
          IF z \in DOMAIN report' THEN report'[z].recommended_threshold
          ELSE pressure_threshold[z]]
  /\ calibration_data' = NoBuckets
  /\ cal_i' = 0
  /\ Goto(Main, "idle")
  /\ UNCHANGED <<score_zones, sensor_mapping, fields, sensor_data, snap,
                 deadline, now, session, device, results, interrupts,
                 calibrations>>

(* The loop is over: one printed line per bucket, and the call returns.    *)
calibrate_sensors_L221 ==
  /\ pc[Main] = "L201"
  /\ cal_i = calibration_ticks
  /\ report' = Recommended(calibration_data)
  /\ calibration_data' = NoBuckets
  /\ cal_i' = 0
  /\ Goto(Main, "idle")
  /\ UNCHANGED <<config, fields, sensor_data, snap, deadline, now, session,
                 device, results, interrupts, calibrations>>

(* ----------------------------------------------------------------- clock *)
Tick ==
  /\ now + TickSeconds <= MaxTime
  /\ now' = now + TickSeconds
  /\ UNCHANGED <<config, cal, fields, pc, sensor_data, snap, deadline, session,
                 device, results, interrupts>>

Next ==
  \/ start_game
  \/ start_game_L56
  \/ start_game_L57
  \/ start_game_L58
  \/ game_loop_L75
  \/ game_loop_L78
  \/ game_loop_L79
  \/ game_loop_L82
  \/ KeyboardInterrupt
  \/ in_waiting_raises
  \/ readline_raises
  \/ write_raises
  \/ register_hit_L108
  \/ register_hit_L110
  \/ send_feedback
  \/ \E s \in Timers : game_timer(s)
  \/ \E t \in Threads : end_game(t)
  \/ \E t \in Threads : generate_qr_result_L163(t)
  \/ \E t \in Threads : generate_qr_result_L164(t)
  \/ \E t \in Threads : generate_qr_result_L171(t)
  \/ Tick

Spec == Init /\ [][Next]_vars

(* What the scheduler owes the threads: a thread that can execute its next  *)
(* line eventually does, and the clock runs.  Nothing is owed by the        *)
(* caller (start_game), the operator (KeyboardInterrupt) or the device: its *)
(* errors, and the newline readline at line 79 waits for once in_waiting    *)
(* has reported bytes (the port is opened without a timeout, line 15).      *)
Fairness ==
  /\ WF_vars(Tick)
  /\ WF_vars(start_game_L56)
  /\ WF_vars(start_game_L57)
  /\ WF_vars(start_game_L58)
  /\ WF_vars(game_loop_L75)
  /\ WF_vars(game_loop_L78)
  /\ WF_vars(game_loop_L82)
  /\ WF_vars(register_hit_L108)
  /\ WF_vars(register_hit_L110)
  /\ WF_vars(send_feedback)
  /\ \A s \in Timers : WF_vars(game_timer(s))
  /\ \A t \in Threads : WF_vars(end_game(t))
  /\ \A t \in Threads : WF_vars(generate_qr_result_L163(t))
  /\ \A t \in Threads : WF_vars(generate_qr_result_L164(t))
  /\ \A t \in Threads : WF_vars(generate_qr_result_L171(t))

FairSpec == Spec /\ Fairness

(* Games and calibration runs of one process, on a device that sends the   *)
(* lines of a calibration run.                                             *)
CalInit ==
  /\ Constructed
  /\ feed \in { [lines |-> CalLines, limit |-> MaxReads],
                [lines |-> StrayLines, limit |-> MaxReads] }

(* The caller alternates games and calibration runs; the operator does not *)
(* interrupt and the device does not fail here.                            *)
CalNext ==
  \/ start_game
  \/ start_game_L56
  \/ start_game_L57
  \/ start_game_L58
  \/ game_loop_L75
  \/ game_loop_L78
  \/ game_loop_L79
  \/ game_loop_L82
  \/ register_hit_L108
  \/ register_hit_L110
  \/ send_feedback
  \/ \E s \in Timers : game_timer(s)
  \/ \E t \in Threads : end_game(t)
  \/ \E t \in Threads : generate_qr_result_L163(t)
  \/ \E t \in Threads : generate_qr_result_L164(t)
  \/ \E t \in Threads : generate_qr_result_L171(t)
  \/ Tick
  \/ calibrate_sensors
  \/ calibrate_sensors_L201
  \/ calibrate_sensors_L221

CalSpec == CalInit /\ [][CalNext]_vars

TypeOK ==
  /\ current_score \in Nat
  /\ game_active \in BOOLEAN
  /\ pc[Main] \in {"idle", "raised", "L201"} \cup TryLines
                   \cup OutsideTryLines
  /\ \A s \in Timers :
       pc[s] \in {"unborn", "L69", "L151", "L163", "L164", "L171",
                  "done"}
  /\ reads \in 0..feed.limit
  /\ now \in 0..MaxTime

(* ================================================================ claims *)
(* What the specification says of sensors, zones and lines; written from   *)
(* its numbers, not from the tables above.                                 *)
SpecZone(id) ==
  IF id \in 0..2 THEN "zone1" ELSE IF id \in 3..5 THEN "zone2"
  ELSE IF id \in 6..8 THEN "zone3" ELSE "bull"

SpecThreshold(z) ==
  CASE z = "bull" -> 300 [] z = "zone3" -> 250 [] z = "zone2" -> 200
    [] z = "zone1" -> 150

SpecPoints(z) ==
  CASE z = "bull" -> 100 [] z = "zone3" -> 50 [] z = "zone2" -> 20
    [] z = "zone1" -> 10

Colons(l) == {i \in 1..Len(l) : l[i] = ":"}

LeftField(l) == SubSeq(l, 1, (CHOOSE i \in Colons(l) : TRUE) - 1)

RightField(l) == SubSeq(l, (CHOOSE i \in Colons(l) : TRUE) + 1, Len(l))

(* "<sensor_id>:<pressure_value>", two integers and one colon.             *)
WellFormed(l) ==
  /\ Cardinality(Colons(l)) = 1
  /\ IsIntLiteral(LeftField(l))
  /\ IsIntLiteral(RightField(l))

LineSensor(l) == IntOf(LeftField(l))

LinePressure(l) == IntOf(RightField(l))

KnownSensor(l) == WellFormed(l) /\ LineSensor(l) \in 0..11

SpecHit(l) ==
  KnownSensor(l) /\ LinePressure(l) > SpecThreshold(SpecZone(LineSensor(l)))

RECURSIVE SumPoints(_)
SumPoints(h) == IF h = <<>> THEN 0 ELSE h[1].points + SumPoints(Tail(h))

(* The hits a sequence of lines must produce: zone, points and pressure of *)
(* the events above their zone's threshold, in event order.                *)
RECURSIVE ExpectedLog(_)
ExpectedLog(ls) ==
  IF ls = <<>> THEN <<>>
  ELSE (IF SpecHit(ls[1])
        THEN <<[zone |-> SpecZone(LineSensor(ls[1])),
                points |-> SpecPoints(SpecZone(LineSensor(ls[1]))),
                pressure |-> LinePressure(ls[1])]>>
        ELSE <<>>) \o ExpectedLog(Tail(ls))

Untimed(h) ==
  [i \in 1..Len(h) |->
     [zone |-> h[i].zone, points |-> h[i].points, pressure |-> h[i].pressure]]

InEndGame(t) == pc[t] \in {"L151", "L163", "L164", "L171"}

(* Thread 0 is inside register_hit, between its two updates.               *)
MidRegister == pc[Main] \in {"L108", "L110"}

(* Thread 0 is in start_game before the loop: the fields are being reset.  *)
Starting == pc[Main] \in {"L56", "L57", "L58"}

(* C1: when timer expiry and a manual abort both fire, finalize runs       *)
(* exactly once: no session ever has more than one game result emitted,    *)
(* so the results emitted never outnumber the sessions started.            *)
C1_SingleFinalize == Len(results) <= session

(* C2: in every state another thread can observe, that is while a timer    *)
(* thread runs end_game and builds the result, or after start_game has     *)
(* returned, current_score is the sum of the points in hit_history.        *)
C2_ScoreIsSumOfPoints ==
  ((\E s \in Timers : InEndGame(s)) \/ pc[Main] = "idle")
    => current_score = SumPoints(hit_history)

(* C3: a line "id:p" of a known sensor registers exactly one hit record    *)
(* when p is above the threshold of the sensor's zone and none when p is   *)
(* equal to or below it: once the first line of a session is processed,    *)
(* hit_history holds one record (of that zone and pressure) or none.       *)
C3_ThresholdDecidesHit ==
  (/\ Len(consumed) = 1
   /\ KnownSensor(consumed[1])
   /\ interrupts = 0
   /\ ~MidRegister)
    => LET l == consumed[1]
           z == SpecZone(LineSensor(l))
       IN IF LinePressure(l) > SpecThreshold(z)
          THEN /\ Len(hit_history) = 1
               /\ hit_history[1].zone = z
               /\ hit_history[1].pressure = LinePressure(l)
          ELSE hit_history = <<>>

C3_Witness ==
  /\ consumed = <<SensorLine(6, 251)>>
  /\ pc[Main] = "L82"
  /\ Len(hit_history) = 1

(* C4: once the session is terminated (game_active cleared) no step of the *)
(* poll loop changes current_score or hit_history.                         *)
C4_NoScoringAfterTermination ==
  [][(~game_active /\ pc[Main] \in TryLines)
       => UNCHANGED <<current_score, hit_history>>]_vars

(* C5: a malformed line, or a well-formed line of a sensor outside 0..11,  *)
(* makes process_sensor_data return normally to the poll loop with         *)
(* current_score, hit_history and game_active unchanged and nothing        *)
(* written to the device.                                                  *)
C5_BadLineDropped ==
  [][(reads' = reads + 1 /\ ~KnownSensor(sensor_data'))
       => /\ pc'[Main] = "L82"
          /\ UNCHANGED <<current_score, hit_history, game_active, written>>]_vars

C5_Witness ==
  /\ consumed = <<<<"9", ":", "3", "5", "0", ":", "1">>>>
  /\ pc[Main] = "L82"
  /\ hit_history = <<>>
  /\ written = <<>>

(* C6: in a run with no sensor event and no abort, only timer expiry ends  *)
(* a session, and it does so once: every result emitted has final_score 0  *)
(* and total_hits 0, no session has two, and when the session's timer has  *)
(* finished the session is inactive and has its one result.                *)
C6_TimerEndsIdleSession ==
  (reads = 0 /\ interrupts = 0)
    => /\ Len(results) <= session
       /\ \A i \in 1..Len(results) :
            /\ results[i].final_score = 0
            /\ results[i].total_hits = 0
            /\ results[i].hit_details = <<>>
       /\ (session >= 1 /\ pc[session] = "done")
            => (~game_active /\ Len(results) = session)

C6_Witness ==
  /\ reads = 0
  /\ interrupts = 0
  /\ session = 1
  /\ pc[1] = "done"
  /\ pc[Main] = "idle"
  /\ Len(results) = 1
  /\ results[1].total_hits = 0

(* C7: after any sequence of lines processed one after another, with no    *)
(* abort, current_score is the sum of the zone points of exactly the       *)
(* events above their zone's threshold, and hit_history lists exactly      *)
(* those events, in order, with zone, points and pressure.                 *)
C7_ScoreOfSequence ==
  (session >= 1 /\ interrupts = 0 /\ ~MidRegister /\ ~Starting)
    => /\ Untimed(hit_history) = ExpectedLog(consumed)
       /\ current_score = SumPoints(ExpectedLog(consumed))

C7_Witness ==
  /\ consumed = <<SensorLine(9, 350), SensorLine(0, 140), SensorLine(3, 250)>>
  /\ pc[Main] = "L82"
  /\ current_score = 120
  /\ Len(hit_history) = 2
  /\ hit_history[1].zone = "bull"
  /\ hit_history[2].zone = "zone2"

(* C8: a failed feedback write does not propagate out of the poll loop.    *)
C8_WriteFailureSwallowed == fault = "write" => pc[Main] # "raised"

(* C9: a failed device read in the poll loop terminates the session        *)
(* through end_game: the loop's thread is finalizing, or the session is    *)
(* inactive and has its result.                                            *)
C9_LinkLossFinalizes ==
  fault \in {"in_waiting", "readline"}
    => \/ InEndGame(Main)
       \/ (~game_active /\ Len(results) >= 1)

(* C10: within a session hit_history is append-only and ordered: a step    *)
(* leaves it unchanged or adds one record at the end, and the timestamps   *)
(* never decrease along the log.                                           *)
C10_AppendOnlyOrdered ==
  /\ [][Starting
        \/ hit_history' = hit_history
        \/ (/\ Len(hit_history') = Len(hit_history) + 1
            /\ SubSeq(hit_history', 1, Len(hit_history)) = hit_history)]_vars
  /\ [](\A i \in 1..Len(hit_history) : \A j \in i..Len(hit_history) :
          /\ hit_history[i].timestamp >= 0
          /\ hit_history[i].timestamp <= hit_history[j].timestamp)

C10_Witness ==
  /\ Len(hit_history) = 2
  /\ hit_history[1].timestamp < hit_history[2].timestamp

SpecToken(z) ==
  CASE z = "bull" -> "LED:BULL" [] z = "zone3" -> "LED:HIGH"
    [] z = "zone2" -> "LED:MID" [] z = "zone1" -> "LED:LOW"

Tokens(h) == [i \in 1..Len(h) |-> SpecToken(h[i].zone)]

(* C11: every confirmed hit causes exactly one device write, of its zone's *)
(* token, issued after score and log were updated, and nothing else causes *)
(* a write: a step that writes appends the token of the record logged      *)
(* last, and in a first session that was not aborted and whose writes did  *)
(* not fail, once a line is processed the tokens written are those of the  *)
(* hits the lines read must produce, one each, in order.                   *)
C11_OneWritePerHit ==
  /\ [][written' # written
          => /\ hit_history # <<>>
             /\ current_score >= hit_history[Len(hit_history)].points
             /\ written' =
                  Append(written,
                         SpecToken(hit_history[Len(hit_history)].zone))]_vars
  /\ []((/\ session = 1
         /\ interrupts = 0
         /\ fault # "write"
         /\ pc[Main] \notin {"L56", "L57", "L58", "L108", "L110", "L122"})
          => written = Tokens(ExpectedLog(consumed)))

C11_Witness ==
  /\ consumed = <<SensorLine(9, 350), SensorLine(0, 140), SensorLine(3, 250)>>
  /\ written = <<"LED:BULL", "LED:MID">>
  /\ pc[Main] = "L82"

(* C12: every started session eventually terminates whatever the device    *)
(* does: once the session's timer is running (with its expiry inside the   *)
(* modelled time) the poll loop is eventually left with game_active false. *)
C12_SessionTerminates ==
  (session >= 1 /\ pc[session] = "L69" /\ deadline[session] <= MaxTime)
    ~> (pc[Main] \in {"idle", "raised"} /\ ~game_active)

(* C15: every game result emitted is a consistent snapshot: its            *)
(* final_score is the sum of the points of its hit_details and its         *)
(* total_hits is their number.                                             *)
C15_ConsistentSnapshot ==
  \A i \in 1..Len(results) :
    /\ results[i].final_score = SumPoints(results[i].hit_details)
    /\ results[i].total_hits = Len(results[i].hit_details)

(* C16: a timer requests termination only of the session it was started   *)
(* with, and only once game_duration has passed since that session began:  *)
(* whenever timer s finds game_active set and goes on to end_game, s is    *)
(* the current session and the clock has reached game_start_time +         *)
(* game_duration.                                                          *)
C16_TimerEndsOwnSession ==
  [][\A s \in Timers :
       (pc[s] = "L69" /\ pc'[s] = "L151")
         => (s = session /\ now >= game_start_time + game_duration)]_vars

(* C18: start_game begins every session clean: when it enters the poll     *)
(* loop, before the session's own duration has passed, current_score is 0, *)
(* hit_history is empty and game_active is true.                           *)
C18_CleanStart ==
  (pc[Main] = "L75" /\ now < game_start_time + game_duration)
    => (current_score = 0 /\ hit_history = <<>> /\ game_active)

(* The sum of a list of readings.                                         *)
RECURSIVE Total(_)
Total(ps) == IF ps = <<>> THEN 0 ELSE ps[1] + Total(Tail(ps))

(* The zones of the board.                                                 *)
SpecZones == {"bull", "zone3", "zone2", "zone1"}

(* C13: no operation changes the configuration tables after construction: *)
(* in every state sensor_mapping maps every id 0..11 to its one zone and   *)
(* score_zones and pressure_threshold hold the documented values, no step  *)
(* of a game or of a calibration changes any of the three, and the steps   *)
(* of calibrate_sensors (which only reports its recommended thresholds)    *)
(* also leave current_score, hit_history and game_active unchanged.        *)
C13_ConfigNeverChanges ==
  /\ [](/\ sensor_mapping = [i \in 0..11 |-> SpecZone(i)]
        /\ score_zones = [z \in SpecZones |-> SpecPoints(z)]
        /\ pressure_threshold = [z \in SpecZones |-> SpecThreshold(z)])
  /\ [][UNCHANGED config]_vars
  /\ [][(pc[Main] = "L201" \/ pc'[Main] = "L201")
          => UNCHANGED <<current_score, hit_history, game_active>>]_vars

(* A game was played and logged a hit, then a calibration reported a       *)
(* threshold for the bull that is not the one in use.                      *)
C13_Witness ==
  /\ pc[Main] = "idle"
  /\ calibrations = 1
  /\ results # <<>>
  /\ hit_history # <<>>
  /\ "bull" \in DOMAIN report
  /\ report["bull"].recommended_threshold # pressure_threshold["bull"]

(* C14: for every bucket with a non-empty list of readings collected       *)
(* during calibration, the recommended threshold reported when the         *)
(* collection ends is the mean times 0.7 truncated to an integer, that is  *)
(* floor(7 * sum / (10 * count)), the readings being non-negative.         *)
C14_SeventyPercentOfMean ==
  [][(pc[Main] = "L201" /\ pc'[Main] = "idle")
       => \A z \in DOMAIN calibration_data :
            /\ z \in DOMAIN report'
            /\ report'[z].recommended_threshold
                 = (7 * Total(calibration_data[z]))
                     \div (10 * Len(calibration_data[z]))]_vars

(* The bucket a well-formed line belongs to, and the readings a sequence   *)
(* of lines puts in each bucket.                                           *)
SpecBucket(l) ==
  IF LineSensor(l) \in 0..11 THEN SpecZone(LineSensor(l)) ELSE "unknown"

RECURSIVE Readings(_, _)
Readings(ls, b) ==
  IF ls = <<>> THEN <<>>
  ELSE (IF WellFormed(ls[1]) /\ SpecBucket(ls[1]) = b
        THEN <<LinePressure(ls[1])>> ELSE <<>>) \o Readings(Tail(ls), b)

ExpectedBuckets(ls) ==
  [b \in {SpecBucket(ls[i]) : i \in {j \in 1..Len(ls) : WellFormed(ls[j])}}
     |-> Readings(ls, b)]

(* C17: during calibration every well-formed event is in exactly one       *)
(* bucket, that of its zone when the sensor id is 0..11 and "unknown"      *)
(* otherwise, and a malformed line is in none: the buckets are those of    *)
(* the lines read so far.  A line, malformed or not, moves the loop on by  *)
(* one tick, and the loop ends only after 30 ticks.  In game mode an event *)
(* of a sensor outside 0..11 is dropped: no hit is logged for it.          *)
C17_BucketsOfLinesRead ==
  /\ [](pc[Main] = "L201" => calibration_data = ExpectedBuckets(consumed))
  /\ [][(pc[Main] = "L201" /\ <<cal_i, consumed, pc[Main]>>'
                                # <<cal_i, consumed, pc[Main]>>)
          => \/ /\ cal_i < 30
                /\ cal_i' = cal_i + 1
                /\ pc'[Main] = "L201"
             \/ /\ cal_i = 30
                /\ consumed' = consumed
                /\ pc'[Main] = "idle"]_vars
  /\ [][(/\ pc[Main] = "L79"
         /\ consumed' # consumed
         /\ WellFormed(consumed'[Len(consumed')])
         /\ LineSensor(consumed'[Len(consumed')]) \notin 0..11)
          => (pc'[Main] = "L82" /\ hit_history' = hit_history)]_vars

(* The loop has run its 30 ticks and read an unknown sensor, a malformed   *)
(* line and a reading of the bull.                                         *)
C17_Witness ==
  /\ pc[Main] = "L201"
  /\ cal_i = 30
  /\ consumed = <<SensorLine(99, 500), <<"a", "b", "c", ":", "x", "y", "z">>,
                  SensorLine(9, 350)>>
  /\ DOMAIN calibration_data = {"unknown", "bull"}
  /\ calibration_data["unknown"] = <<500>>
  /\ calibration_data["bull"] = <<350>>

====
